---------------------------- MODULE Spec2Model ----------------------------
(***************************************************************************)
(* Model of issue.go of the go-jira client: the IssueFields payload with   *)
(* its known typed slots and its open store Unknowns, the custom           *)
(* MarshalJSON (flatten) and UnmarshalJSON (split), the metadata driven    *)
(* builder InitIssueWithMetaAndFields, and the operations GetCustomFields, *)
(* PostAttachment and DownloadAttachment.                                  *)
(*                                                                         *)
(* Go values are tagged tuples, the tag first:                             *)
(*   <<"string", s>>          a Go string                                  *)
(*   <<"nil">>                a nil pointer, slice, map or interface       *)
(*   <<"struct", T, f>>       a struct of type T, f its modelled members   *)
(*   <<"ptr", T, f>>          a non-nil *T                                 *)
(*   <<"slice", seq>>         a non-nil slice                              *)
(*   <<"map", f>>             a map[string]interface{}                     *)
(* JSON values are tagged tuples of their own:                             *)
(*   <<"jstr", s>>  <<"jnull">>  <<"jobj", f>>  <<"jarr", seq>>            *)
(* A JSON document is a sequence of <<key, value>> pairs in text order.    *)
(***************************************************************************)
EXTENDS Integers, Sequences, FiniteSets, TLC

\* ------------------------------------------------------------------ bounds
\* Largest number of members of a wire object handed to Split.
MaxKeys == 2
\* Largest number of entries of the field map handed to the builder.
MaxFields == 2
\* Largest number of members of the raw fields object of a fetched issue.
MaxRawKeys == 2
\* Largest number of chunks of an attachment stream.
MaxChunks == 2

\* ------------------------------------------------------------- Go values
Nil == <<"nil">>
GoString(s) == <<"string", s>>
GoStruct(T, f) == <<"struct", T, f>>
GoPtr(T, f) == <<"ptr", T, f>>
GoSlice(seq) == <<"slice", seq>>
GoMap(f) == <<"map", f>>

JNull == <<"jnull">>
JStr(s) == <<"jstr", s>>
JObj(f) == <<"jobj", f>>
JArr(seq) == <<"jarr", seq>>

\* The empty map[string]interface{} (tcontainer.NewMarshalMap()).
NewMarshalMap == [k \in {} |-> Nil]

\* m[k] = v on a Go map.
MapPut(m, k, v) == [x \in (DOMAIN m) \cup {k} |-> IF x = k THEN v ELSE m[x]]

\* delete(m, k) on a Go map.
MapDelete(m, k) == [x \in (DOMAIN m) \ {k} |-> m[x]]

\* The members of the struct types of issue.go that the model keeps, all
\* strings tagged omitempty: IssueType, Priority and Component carry id and
\* name, User carries name; Project (declared in project.go) carries id and
\* name. Every other member of these types stays at its zero value.
Members(T) ==
    CASE T = "IssueType" -> {"id", "name"}
      [] T = "Priority"  -> {"id", "name"}
      [] T = "Component" -> {"id", "name"}
      [] T = "Project"   -> {"id", "name"}
      [] T = "User"      -> {"name"}
      [] OTHER           -> {}

\* The zero value of struct type T.
ZeroMembers(T) == [m \in Members(T) |-> ""]

\* ------------------------------------------------- the IssueFields struct
\* One declared field: its Go name, its json tag and its structs tag as the
\* comma separated components of the tag text (<<>> for no tag), its kind
\* and the type behind it: the struct type of a struct or pointer field,
\* the element type of a slice field (a slice of a struct type holds
\* pointers to it, a slice of string holds strings).
Fld(name, tag, kind, type) ==
    [name |-> name, json |-> tag, structs |-> tag, kind |-> kind, type |-> type]

\* The fields of IssueFields in declaration order.
IssueFieldsType == <<
    Fld("Type",              <<"issuetype">>,                      "struct", "IssueType"),
    Fld("Project",           <<"project", "omitempty">>,           "struct", "Project"),
    Fld("Resolution",        <<"resolution", "omitempty">>,        "ptr",    "Resolution"),
    Fld("Priority",          <<"priority", "omitempty">>,          "ptr",    "Priority"),
    Fld("Resolutiondate",    <<"resolutiondate", "omitempty">>,    "string", "string"),
    Fld("Created",           <<"created", "omitempty">>,           "string", "string"),
    Fld("Watches",           <<"watches", "omitempty">>,           "ptr",    "Watches"),
    Fld("Assignee",          <<"assignee", "omitempty">>,          "ptr",    "User"),
    Fld("Updated",           <<"updated", "omitempty">>,           "string", "string"),
    Fld("Description",       <<"description", "omitempty">>,       "string", "string"),
    Fld("Summary",           <<"summary">>,                        "string", "string"),
    Fld("Creator",           <<"Creator", "omitempty">>,           "ptr",    "User"),
    Fld("Reporter",          <<"reporter", "omitempty">>,          "ptr",    "User"),
    Fld("Components",        <<"components", "omitempty">>,        "slice",  "Component"),
    Fld("Status",            <<"status", "omitempty">>,            "ptr",    "Status"),
    Fld("Progress",          <<"progress", "omitempty">>,          "ptr",    "Progress"),
    Fld("AggregateProgress", <<"aggregateprogress", "omitempty">>, "ptr",    "Progress"),
    Fld("Worklog",           <<"worklog", "omitempty">>,           "ptr",    "Worklog"),
    Fld("IssueLinks",        <<"issuelinks", "omitempty">>,        "slice",  "IssueLink"),
    Fld("Comments",          <<"comment", "omitempty">>,           "ptr",    "Comments"),
    Fld("FixVersions",       <<"fixVersions", "omitempty">>,       "slice",  "FixVersion"),
    Fld("Labels",            <<"labels", "omitempty">>,            "slice",  "string"),
    Fld("Subtasks",          <<"subtasks", "omitempty">>,          "slice",  "Subtasks"),
    Fld("Attachments",       <<"attachment", "omitempty">>,        "slice",  "Attachment"),
    Fld("Epic",              <<"epic", "omitempty">>,              "ptr",    "Epic"),
    Fld("Unknowns",          <<>>,                                 "map",    "interface"),
    Fld("DueDate",           <<"duedate", "omitempty">>,           "string", "string"),
    Fld("Justification",     <<"customfield_10218", "omitempty">>, "string", "string"),
    Fld("RollbackPlan",      <<"customfield_10220", "omitempty">>, "string", "string") >>

NumField == Len(IssueFieldsType)
FieldNames == {IssueFieldsType[n].name : n \in 1..NumField}
FieldByName(name) == CHOOSE fd \in {IssueFieldsType[n] : n \in 1..NumField} : fd.name = name

\* The zero value of a field of the given kind and type.
ZeroValue(kind, type) ==
    CASE kind = "string" -> GoString("")
      [] kind = "struct" -> GoStruct(type, ZeroMembers(type))
      [] OTHER           -> Nil

\* new(IssueFields): every field at its zero value.
NewIssueFields ==
    [name \in FieldNames |-> ZeroValue(FieldByName(name).kind, FieldByName(name).type)]

\* --------------------------------------------------------- encoding/json
\* A JSON document: valid is false for text that is not well formed JSON;
\* pairs are the members of the top-level object in text order.
Document(pairs) == [valid |-> TRUE, pairs |-> pairs]
Malformed == [valid |-> FALSE, pairs |-> <<>>]

\* The keys of a document and the value a map decoded from it holds under a
\* key (the last occurrence in text order).
DocKeys(doc) == {doc.pairs[n][1] : n \in 1..Len(doc.pairs)}
DocValue(doc, k) ==
    LET last == CHOOSE n \in 1..Len(doc.pairs) :
                    /\ doc.pairs[n][1] = k
                    /\ \A q \in 1..Len(doc.pairs) : doc.pairs[q][1] = k => q <= n
    IN  doc.pairs[last][2]

\* json.Marshal of a Go value held in a map[string]interface{}: strings as
\* strings, nil as null, structs and pointers to structs as objects of
\* their non-empty members (every modelled member is tagged omitempty),
\* slices as arrays, maps as objects.
RECURSIVE Marshal(_)
Marshal(v) ==
    CASE v[1] = "string" -> JStr(v[2])
      [] v[1] = "nil"    -> JNull
      [] v[1] \in {"struct", "ptr"} ->
            JObj([m \in {x \in DOMAIN v[3] : v[3][x] # ""} |-> JStr(v[3][m])])
      [] v[1] = "slice"  -> JArr([n \in 1..Len(v[2]) |-> Marshal(v[2][n])])
      [] v[1] = "map"    -> JObj([k \in DOMAIN v[2] |-> Marshal(v[2][k])])

\* json.Unmarshal of a JSON value into an interface{}: a string, nil, a
\* map[string]interface{} or a []interface{}.
RECURSIVE Generic(_)
Generic(j) ==
    CASE j[1] = "jstr"  -> GoString(j[2])
      [] j[1] = "jnull" -> Nil
      [] j[1] = "jobj"  -> GoMap([k \in DOMAIN j[2] |-> Generic(j[2][k])])
      [] j[1] = "jarr"  -> GoSlice([n \in 1..Len(j[2]) |-> Generic(j[2][n])])

\* json.Unmarshal of a JSON object g into a struct of type T whose members
\* are f: a string member takes a JSON string, keeps its value on null or
\* when g has no such member, and any other JSON value is a type error.
DecodeStruct(T, f, g) ==
    [val |-> [m \in Members(T) |->
                 IF m \in DOMAIN g /\ g[m][1] = "jstr" THEN g[m][2] ELSE f[m]],
     ok  |-> \A m \in Members(T) \cap DOMAIN g : g[m][1] \in {"jstr", "jnull"}]

\* json.Unmarshal of the JSON value j into a field of the given kind and
\* type that holds prior. A type error leaves the field as it was and is
\* reported (ok is false); decoding goes on with the next member.
RECURSIVE DecodeValue(_, _, _, _)
DecodeValue(kind, type, prior, j) ==
    IF j[1] = "jnull"
    THEN [val |-> IF kind \in {"ptr", "slice", "map"} THEN Nil ELSE prior, ok |-> TRUE]
    ELSE CASE kind = "string" ->
                IF j[1] = "jstr" THEN [val |-> GoString(j[2]), ok |-> TRUE]
                ELSE [val |-> prior, ok |-> FALSE]
           [] kind = "struct" ->
                IF j[1] = "jobj"
                THEN LET d == DecodeStruct(type, prior[3], j[2])
                     IN  [val |-> GoStruct(type, d.val), ok |-> d.ok]
                ELSE [val |-> prior, ok |-> FALSE]
           [] kind = "ptr" ->
                IF j[1] = "jobj"
                THEN LET base == IF prior = Nil THEN ZeroMembers(type) ELSE prior[3]
                         d == DecodeStruct(type, base, j[2])
                     IN  [val |-> GoPtr(type, d.val), ok |-> d.ok]
                ELSE [val |-> prior, ok |-> FALSE]
           [] kind = "slice" ->
                IF j[1] = "jarr"
                THEN LET ekind == IF type = "string" THEN "string" ELSE "ptr"
                         etype == type
                         el(n) == DecodeValue(ekind, etype, ZeroValue(ekind, etype), j[2][n])
                     IN  [val |-> GoSlice([n \in 1..Len(j[2]) |-> el(n).val]),
                          ok  |-> \A n \in 1..Len(j[2]) : el(n).ok]
                ELSE [val |-> prior, ok |-> FALSE]
           [] kind = "map" ->
                IF j[1] = "jobj"
                THEN LET base == IF prior = Nil THEN NewMarshalMap ELSE prior[2]
                     IN  [val |-> GoMap([k \in (DOMAIN base) \cup (DOMAIN j[2]) |->
                                            IF k \in DOMAIN j[2] THEN Generic(j[2][k])
                                            ELSE base[k]]),
                          ok  |-> TRUE]
                ELSE [val |-> prior, ok |-> FALSE]

\* The name encoding/json knows a field by: the first component of its json
\* tag, the Go name of a field without tag.
JSONName(fd) == IF fd.json = <<>> THEN fd.name ELSE fd.json[1]

\* Case folding of the keys the model uses (strings.EqualFold compares the
\* folded forms); a key without capital letters folds to itself.
Fold(k) ==
    CASE k = "Summary"     -> "summary"
      [] k = "Unknowns"    -> "unknowns"
      [] k = "Creator"     -> "creator"
      [] k = "fixVersions" -> "fixversions"
      [] OTHER             -> k

\* The field encoding/json decodes a member named k into: the field whose
\* name is k, else the first field whose name equals k under case folding,
\* else none (0), and the member is skipped.
FieldFor(k) ==
    LET exact == {n \in 1..NumField : JSONName(IssueFieldsType[n]) = k}
        fold  == {n \in 1..NumField : Fold(JSONName(IssueFieldsType[n])) = Fold(k)}
        first(S) == CHOOSE n \in S : \A q \in S : n <= q
    IN  IF exact # {} THEN first(exact)
        ELSE IF fold # {} THEN first(fold)
        ELSE 0

\* json.Unmarshal(data, &aux) past the syntax check: the members of the
\* document are decoded in text order into the fields they name. The first
\* n pairs have been decoded into i.
RECURSIVE DecodeFields(_, _, _)
DecodeFields(i, pairs, n) ==
    IF n = 0 THEN [fields |-> i, ok |-> TRUE]
    ELSE LET before == DecodeFields(i, pairs, n - 1)
             f == FieldFor(pairs[n][1])
         IN  IF f = 0 THEN before
             ELSE LET fd == IssueFieldsType[f]
                      d  == DecodeValue(fd.kind, fd.type, before.fields[fd.name], pairs[n][2])
                  IN  [fields |-> [before.fields EXCEPT ![fd.name] = d.val],
                       ok     |-> before.ok /\ d.ok]

\* json.Unmarshal(data, &totalMap): every member of the document under its
\* own key.
DecodeMap(doc) == [k \in DocKeys(doc) |-> Generic(DocValue(doc, k))]

\* TagKey taking the Go name of the field for its tag key.
TagKeyIsFieldName(fd) == fd.name

\* options[0] of strings.Split(tagDetail, ","): the json tag key of a field.
TagKey(fd) == fd.json[1]

\* DeleteKnown with the delete left out: totalMap is returned whole.
DeleteNothing(totalMap, n) == totalMap

\* The loop over the fields of IssueFields: a field without json tag is
\* skipped, the tag key of every other field is deleted from totalMap. The
\* first n fields have been visited.
RECURSIVE DeleteKnown(_, _)
DeleteKnown(totalMap, n) ==
    IF n = 0 THEN totalMap
    ELSE LET before == DeleteKnown(totalMap, n - 1)
             field  == IssueFieldsType[n]
         IN  IF field.json = <<>> THEN before
             ELSE IF TagKey(field) \in DOMAIN before
                  THEN MapDelete(before, TagKey(field))
                  ELSE before

\* IssueFields.UnmarshalJSON on the receiver i. A document that is not well
\* formed fails the first decode before anything is stored; a type error
\* fails it after the members that could be decoded have been stored.
UnmarshalJSON(i, doc) ==
    IF ~doc.valid THEN [fields |-> i, err |-> <<"SyntaxError">>]
    ELSE LET aux == DecodeFields(i, doc.pairs, Len(doc.pairs))
         IN  IF ~aux.ok THEN [fields |-> aux.fields, err |-> <<"UnmarshalTypeError">>]
             ELSE [fields |-> [aux.fields EXCEPT
                                  !["Unknowns"] = GoMap(DeleteKnown(DecodeMap(doc), NumField))],
                   err    |-> <<"nil">>]

\* ----------------------------------------------------------- fatih/structs
\* The name structs.Map files a field under: the first component of its
\* structs tag, the Go name of a field without tag.
StructsName(fd) == IF fd.structs = <<>> THEN fd.name ELSE fd.structs[1]

\* HasOmitEmpty taking every tagged field for an omitempty field.
HasOmitEmptyAlways(fd) == fd.structs # <<>>

\* tagOpts.Has("omitempty"): the option is among the components after the
\* name.
HasOmitEmpty(fd) == \E n \in 2..Len(fd.structs) : fd.structs[n] = "omitempty"

\* The value structs.Map stores for a field: a struct, or the struct behind
\* a pointer, becomes the map of its members that are not empty (each is
\* tagged omitempty); when that map is empty the value itself is stored.
\* Any other value is stored as it is.
Nested(v) ==
    IF v[1] \in {"struct", "ptr"}
    THEN LET keep == {x \in DOMAIN v[3] : v[3][x] # ""}
         IN  IF keep = {} THEN v ELSE GoMap([x \in keep |-> GoString(v[3][x])])
    ELSE v

\* Omitted with the zero check left out: no field is left out.
OmittedNever(fd, v) == FALSE

\* Whether structs.Map leaves the field out: it is tagged omitempty and
\* reflect.DeepEqual finds its value equal to the zero value of its type.
Omitted(fd, v) == HasOmitEmpty(fd) /\ v = ZeroValue(fd.kind, fd.type)

\* structs.Map(i): the fields that are not left out, under their names.
StructsMap(i) ==
    LET kept == {n \in 1..NumField :
                    ~Omitted(IssueFieldsType[n], i[IssueFieldsType[n].name])}
        at(k) == CHOOSE n \in kept : StructsName(IssueFieldsType[n]) = k
    IN  [k \in {StructsName(IssueFieldsType[n]) : n \in kept} |->
            Nested(i[IssueFieldsType[at(k)].name])]

\* Every key the model can put into a JSON object or a map, in byte order:
\* the order in which json.Marshal writes and fmt.Sprint prints the keys of
\* a map.
SortedKeys == <<
    "Creator", "Summary", "Unknowns", "aggregateprogress", "assignee",
    "attachment", "comment", "components", "created", "customfield_100",
    "customfield_10218", "customfield_10220", "description", "duedate", "epic",
    "fixVersions", "id", "issuelinks", "issuetype", "labels", "name",
    "priority", "progress",
    "project", "reporter", "resolution", "resolutiondate", "status",
    "subtasks", "summary", "updated", "value", "watches", "worklog" >>

\* json.Marshal(m) of a map[string]interface{}.
MarshalMap(m) ==
    LET InMap(k) == k \in DOMAIN m
        keys == SelectSeq(SortedKeys, InMap)
    IN  Document([n \in 1..Len(keys) |-> <<keys[n], Marshal(m[keys[n]])>>])

\* The copy loop of MarshalJSON: every entry of unknowns is stored into m
\* under its own key. Ranging over a nil map stores nothing.
ShiftUp(m, unknowns) ==
    IF unknowns = Nil THEN m
    ELSE [k \in (DOMAIN m) \cup (DOMAIN unknowns[2]) |->
             IF k \in DOMAIN unknowns[2] THEN unknowns[2][k] ELSE m[k]]

\* IssueFields.MarshalJSON.
MarshalJSON(i) ==
    LET m == StructsMap(i)
        okay == "Unknowns" \in DOMAIN m
    IN  IF okay
        THEN MarshalMap(MapDelete(ShiftUp(m, m["Unknowns"]), "Unknowns"))
        ELSE MarshalMap(m)

\* ------------------------------------------------------ metadata builder
NoError == <<"nil">>

\* MarshalMap.Value on a path of segments: the value the nested maps hold
\* at the path, found is false when a segment is missing or the value on
\* the way is no map.
RECURSIVE Value(_, _)
Value(v, path) ==
    IF path = <<>> THEN [found |-> TRUE, val |-> v]
    ELSE IF v[1] = "map" /\ Head(path) \in DOMAIN v[2]
         THEN Value(v[2][Head(path)], Tail(path))
         ELSE [found |-> FALSE, val |-> Nil]

\* String giving the empty string, without error, for a path that is
\* missing or holds no string.
StringLenient(mmap, path) ==
    LET r == Value(mmap, path)
    IN  [val |-> IF r.found /\ r.val[1] = "string" THEN r.val[2] ELSE "", err |-> NoError]

\* MarshalMap.String(path): the string at the path, or an error when the
\* path is missing or holds no string.
String(mmap, path) ==
    LET r == Value(mmap, path)
    IN  IF r.found /\ r.val[1] = "string"
        THEN [val |-> r.val[2], err |-> NoError]
        ELSE [val |-> "", err |-> <<"tcontainer">> \o path]

\* One field of the metadata tree of an issue type: its display name and
\* its schema.
MetaField(name, schema) == GoMap([name |-> GoString(name), schema |-> GoMap(schema)])

\* The create metadata of the issue type the model builds issues for. Beside
\* one field of every schema type the builder knows, it declares a field of
\* a type the builder does not know, a field without schema type and an
\* array field without item type.
MetaIssueTypeFields == GoMap(
    [summary           |-> MetaField("Summary",     [type |-> GoString("string")]),
     components        |-> MetaField("Component/s", [type |-> GoString("array"),
                                                     items |-> GoString("component")]),
     labels            |-> MetaField("Labels",      [type |-> GoString("array"),
                                                     items |-> GoString("string")]),
     assignee          |-> MetaField("Assignee",    [type |-> GoString("user")]),
     project           |-> MetaField("Project",     [type |-> GoString("project")]),
     priority          |-> MetaField("Priority",    [type |-> GoString("priority")]),
     issuetype         |-> MetaField("Issue Type",  [type |-> GoString("issuetype")]),
     duedate           |-> MetaField("Due Date",    [type |-> GoString("date")]),
     customfield_100   |-> MetaField("Severity",    [type |-> GoString("any")]),
     customfield_200   |-> MetaField("Flag",        [type |-> GoString("option")]),
     customfield_300   |-> MetaField("Untyped",     [custom |-> GoString("x")]),
     customfield_400   |-> MetaField("Tags",        [type |-> GoString("array")])])

\* MetaIssueType.GetAllFields: the table from the display name of every
\* field of the metadata tree to its internal key.
GetAllFields(tree) ==
    LET names == {tree[2][k][2].name[2] : k \in DOMAIN tree[2]}
    IN  [n \in names |-> CHOOSE k \in DOMAIN tree[2] : tree[2][k][2].name[2] = n]

\* The project metadata handed to the builder.
MetaProject == [Name |-> "Demo", Id |-> "10000"]

\* ProjectRef naming the project by the supplied value.
ProjectRefFromValue(metaProject, value) ==
    GoStruct("Project", [id |-> "", name |-> value])

\* case "project": the Project built from the project metadata; the
\* supplied value is not used.
ProjectRef(metaProject, value) ==
    GoStruct("Project", [id |-> metaProject.Id, name |-> metaProject.Name])

\* UnknownType storing the value as a string instead of failing.
UnknownTypeAsString(valueType, key, value) ==
    [val |-> GoString(value), err |-> NoError]

\* default: a schema type the switch has no case for is an error that names
\* the type and the display name.
UnknownType(valueType, key, value) ==
    [val |-> Nil, err |-> <<"UnknownIssueType", valueType, key>>]

\* The value the switch on the schema type stores for one entry of
\* fieldsConfig, or the error it returns.
Coerce(metaProject, tree, key, jiraKey, value) ==
    LET valueType == String(tree, <<jiraKey, "schema", "type">>)
        elemType  == String(tree, <<jiraKey, "schema", "items">>)
        store(v)  == [val |-> v, err |-> NoError]
        fail(e)   == [val |-> Nil, err |-> e]
    IN  IF valueType.err # NoError THEN fail(valueType.err)
        ELSE CASE valueType.val = "array" ->
                    IF elemType.err # NoError THEN fail(elemType.err)
                    ELSE IF elemType.val = "component"
                         THEN store(GoSlice(<<GoStruct("Component", [id |-> "", name |-> value])>>))
                         ELSE store(GoSlice(<<GoString(value)>>))
               [] valueType.val \in {"string", "date", "any"} -> store(GoString(value))
               [] valueType.val = "project" -> store(ProjectRef(metaProject, value))
               [] valueType.val = "priority" ->
                    store(GoStruct("Priority", [id |-> "", name |-> value]))
               [] valueType.val = "user" -> store(GoStruct("User", [name |-> value]))
               [] valueType.val = "issuetype" ->
                    store(GoStruct("IssueType", [id |-> "", name |-> value]))
               [] OTHER -> UnknownType(valueType.val, key, value)

\* RangeFields skipping an entry whose display name is not found.
RECURSIVE RangeFieldsSkipping(_, _, _, _, _, _)
RangeFieldsSkipping(metaProject, tree, fieldsConfig, order, n, unknowns) ==
    IF n > Len(order) THEN [unknowns |-> unknowns, err |-> NoError]
    ELSE LET key == order[n]
             allFields == GetAllFields(tree)
         IN  IF key \notin DOMAIN allFields
             THEN RangeFieldsSkipping(metaProject, tree, fieldsConfig, order, n + 1, unknowns)
             ELSE LET c == Coerce(metaProject, tree, key, allFields[key], fieldsConfig[key])
                  IN  IF c.err # NoError THEN [unknowns |-> unknowns, err |-> c.err]
                      ELSE RangeFieldsSkipping(metaProject, tree, fieldsConfig, order, n + 1,
                                               MapPut(unknowns, allFields[key], c.val))

\* The loop of InitIssueWithMetaAndFields over fieldsConfig in the order
\* the map iteration takes; the entries before order[n] have been stored
\* into unknowns. The first entry that fails ends the call.
RECURSIVE RangeFields(_, _, _, _, _, _)
RangeFields(metaProject, tree, fieldsConfig, order, n, unknowns) ==
    IF n > Len(order) THEN [unknowns |-> unknowns, err |-> NoError]
    ELSE LET key == order[n]
             allFields == GetAllFields(tree)
             found == key \in DOMAIN allFields
         IN  IF ~found THEN [unknowns |-> unknowns, err |-> <<"KeyNotFound", key>>]
             ELSE LET c == Coerce(metaProject, tree, key, allFields[key], fieldsConfig[key])
                  IN  IF c.err # NoError THEN [unknowns |-> unknowns, err |-> c.err]
                      ELSE RangeFields(metaProject, tree, fieldsConfig, order, n + 1,
                                       MapPut(unknowns, allFields[key], c.val))

\* InitIssueWithMetaAndFields: the issue, nil when an entry failed, and the
\* error.
InitIssueWithMetaAndFields(metaProject, tree, fieldsConfig, order) ==
    LET r == RangeFields(metaProject, tree, fieldsConfig, order, 1, NewMarshalMap)
    IN  IF r.err # NoError THEN [issue |-> Nil, err |-> r.err]
        ELSE [issue |-> GoPtr("Issue", [Fields |-> [NewIssueFields EXCEPT
                                                       !["Unknowns"] = GoMap(r.unknowns)]]),
              err   |-> NoError]

\* ------------------------------------------------------- issue operations
\* The keys of the raw fields object of a fetched issue are sequences of
\* characters, so that strings.Contains is computed on them.
Customfield == <<"c", "u", "s", "t", "o", "m", "f", "i", "e", "l", "d">>

\* Contains as strings.HasPrefix: substr at the start of s only.
HasPrefix(s, substr) ==
    Len(s) >= Len(substr) /\ SubSeq(s, 1, Len(substr)) = substr

\* strings.Contains(s, substr): substr occurs in s at some offset.
Contains(s, substr) ==
    \E n \in 0..(Len(s) - Len(substr)) : SubSeq(s, n + 1, n + Len(substr)) = substr

\* The texts of seq joined by single spaces.
RECURSIVE Join(_)
Join(seq) ==
    IF seq = <<>> THEN ""
    ELSE IF Len(seq) = 1 THEN seq[1]
    ELSE seq[1] \o " " \o Join(Tail(seq))

\* fmt.Sprint(val) of a value decoded into an interface{}: a string is
\* printed as it is, nil as <nil>, a map as map[k:v ...] with its keys in
\* sorted order, a slice as [e ...].
RECURSIVE Sprint(_)
Sprint(val) ==
    CASE val[1] = "string" -> val[2]
      [] val[1] = "nil"    -> "<nil>"
      [] val[1] = "map"    ->
            LET InMap(k) == k \in DOMAIN val[2]
                keys == SelectSeq(SortedKeys, InMap)
            IN  "map[" \o Join([n \in 1..Len(keys) |->
                                   keys[n] \o ":" \o Sprint(val[2][keys[n]])]) \o "]"
      [] val[1] = "slice"  ->
            "[" \o Join([n \in 1..Len(val[2]) |-> Sprint(val[2][n])]) \o "]"

\* The value GetCustomFields prints for a raw value: the value member of a
\* map that has one, the raw value otherwise.
Unwrap(val) ==
    IF val[1] = "map" /\ "value" \in DOMAIN val[2] THEN val[2]["value"] ELSE val

\* What the client gave GetCustomFields: the error of NewRequest, the error
\* of Do and, when both are nil, the JSON object of the response body, which
\* Do has decoded into a map[string]interface{}.
Reply(newRequest, do, body) == [newRequest |-> newRequest, do |-> do, body |-> body]

\* IssueService.GetCustomFields: the custom fields, nil when the request
\* failed, and the error.
GetCustomFields(reply) ==
    IF reply.newRequest # NoError THEN [cf |-> Nil, err |-> reply.newRequest]
    ELSE IF reply.do # NoError THEN [cf |-> Nil, err |-> reply.do]
    ELSE LET m == Generic(reply.body)[2]
             f == IF "fields" \in DOMAIN m THEN m["fields"] ELSE Nil
         IN  IF f = Nil THEN [cf |-> GoMap(NewMarshalMap), err |-> NoError]
             ELSE IF f[1] = "map"
                  THEN LET rec == f[2]
                       IN  [cf  |-> GoMap([key \in {k \in DOMAIN rec : Contains(k, Customfield)} |->
                                              GoString(Sprint(Unwrap(rec[key])))]),
                            err |-> NoError]
                  ELSE [cf |-> GoMap(NewMarshalMap), err |-> NoError]

\* A byte stream: an io.Reader handed to PostAttachment or the body of a
\* response. It delivers chunks chunks and then EOF, unless failAt names
\* the Read that fails (0: none does); read counts the chunks delivered,
\* eof tells whether EOF was delivered, closed whether Close was called.
\* present is false for a nil reader and for a response that has no body.
Stream(chunks, failAt) ==
    [present |-> TRUE, chunks |-> chunks, failAt |-> failAt,
     read |-> 0, eof |-> FALSE, closed |-> FALSE]
NoStream ==
    [present |-> FALSE, chunks |-> 0, failAt |-> 0,
     read |-> 0, eof |-> FALSE, closed |-> FALSE]

\* What s.client.Do gives an attachment call: whether it returns a
\* response, the body of that response and the error. With a nil target
\* (DownloadAttachment) Do neither reads nor closes the body; with a target
\* to decode into (PostAttachment) the body is not handed on.
DoResult(resp, body, e) == [resp |-> resp, body |-> body, err |-> e]

\* writer.CreateFormFile("file", attachmentName): the part header is written
\* into a bytes.Buffer, whose Write returns no error.
CreateFormFile == NoError

\* io.Copy(fw, r): Read after Read until r delivers EOF or an error; the
\* writes go into the bytes.Buffer and do not fail.
RECURSIVE Copy(_)
Copy(r) ==
    IF r.failAt = r.read + 1 THEN [r |-> r, err |-> <<"ReadError">>]
    ELSE IF r.read = r.chunks THEN [r |-> [r EXCEPT !.eof = TRUE], err |-> NoError]
    ELSE Copy([r EXCEPT !.read = r.read + 1])

\* IssueService.PostAttachment: the reader as the call leaves it, the
\* return statement it leaves by, whether it returns a response, and the
\* error. newRequest is the error of NewMultiPartRequest, do what Do gives.
PostAttachment(r, newRequest, do) ==
    IF CreateFormFile # NoError
    THEN [r |-> r, exit |-> "createFormFile", resp |-> FALSE, err |-> CreateFormFile]
    ELSE LET c == IF r.present THEN Copy(r) ELSE [r |-> r, err |-> NoError]
         IN  IF c.err # NoError
             THEN [r |-> c.r, exit |-> "copy", resp |-> FALSE, err |-> c.err]
             ELSE IF newRequest # NoError
             THEN [r |-> c.r, exit |-> "newRequest", resp |-> FALSE, err |-> newRequest]
             ELSE IF do.err # NoError
             THEN [r |-> c.r, exit |-> "do", resp |-> do.resp, err |-> do.err]
             ELSE [r |-> c.r, exit |-> "success", resp |-> do.resp, err |-> NoError]

\* IssueService.DownloadAttachment: whether a response is returned, its
\* body as the call leaves it, the return statement and the error.
DownloadAttachment(newRequest, do) ==
    IF newRequest # NoError
    THEN [resp |-> FALSE, body |-> NoStream, exit |-> "newRequest", err |-> newRequest]
    ELSE IF do.err # NoError
    THEN [resp |-> do.resp, body |-> do.body, exit |-> "do", err |-> do.err]
    ELSE [resp |-> do.resp, body |-> do.body, exit |-> "success", err |-> NoError]

\* ---------------------------------------------------------------- inputs
\* The keys of the wire objects handed to Split: known keys with and without
\* omitempty, a custom field that IssueFields declares and one it does not,
\* the name of the untagged store field, and a known key in another case.
WireKeys == {"summary", "issuetype", "customfield_10218", "customfield_100",
             "Unknowns", "Summary"}

\* The values of their members.
WireValues == {JStr("Bug"), JStr("because"), JNull, JObj([name |-> JStr("Bug")])}

\* The documents handed to Split: every object of at most MaxKeys members
\* with distinct keys, in every text order, and one malformed text.
WireDocs ==
    {Malformed} \cup
    UNION {{Document(w) : w \in {x \in [1..n -> WireKeys \X WireValues] :
                                    \A a, b \in 1..n : x[a][1] = x[b][1] => a = b}}
           : n \in 0..MaxKeys}

\* The payloads a caller builds by hand: the known fields all zero or some
\* of them set, Unknowns nil, empty, or holding one entry whose key may be a
\* known key or the name of the store field.
LiteralKnown ==
    {NewIssueFields,
     [NewIssueFields EXCEPT
         !["Summary"] = GoString("Task"),
         !["Type"] = GoStruct("IssueType", [id |-> "", name |-> "Story"]),
         !["Justification"] = GoString("why"),
         !["Assignee"] = GoPtr("User", [name |-> "alice"])]}
LiteralUnknowns ==
    {Nil, GoMap(NewMarshalMap)} \cup
    {GoMap(MapPut(NewMarshalMap, k, GoString("dyn")))
        : k \in {"customfield_100", "summary", "customfield_10218", "Unknowns"}}
LiteralPayloads ==
    {[k EXCEPT !["Unknowns"] = u] : k \in LiteralKnown, u \in LiteralUnknowns}

\* The field maps handed to the builder: at most MaxFields display names,
\* each with one of two values; two of the display names are unknown to
\* the metadata.
DisplayNames == (DOMAIN GetAllFields(MetaIssueTypeFields)) \cup {"Nonexistent Field", "Sprint"}
FieldValues == {"Backend", "alice"}
FieldsConfigs ==
    UNION {[S -> FieldValues] : S \in {T \in SUBSET DisplayNames : Cardinality(T) <= MaxFields}}

\* The keys of the raw fields object of a fetched issue: a custom field, a
\* key with customfield inside, a known key, a key that stops short of
\* customfield and one that differs from it in case.
RawKeys ==
    {Customfield \o <<"_", "1", "0", "0">>,
     <<"m", "y", "_">> \o Customfield,
     <<"s", "u", "m", "m", "a", "r", "y">>,
     <<"c", "u", "s", "t", "o", "m", "f", "i", "e", "l">>,
     <<"C">> \o Tail(Customfield) \o <<"_", "1">>}

\* The raw values: strings, an object with a value member, one without,
\* one with both, null, an object whose value member is null, an array.
RawValues ==
    {JStr("High"), JStr("x"), JNull,
     JObj([value |-> JStr("High")]),
     JObj([id |-> JStr("7")]),
     JObj([id |-> JStr("7"), value |-> JStr("High")]),
     JObj([value |-> JNull]),
     JArr(<<JStr("a"), JStr("b")>>)}

\* The raw fields objects of at most MaxRawKeys members.
RawFields ==
    UNION {[S -> RawValues] : S \in {T \in SUBSET RawKeys : Cardinality(T) <= MaxRawKeys}}

\* The replies to GetCustomFields: NewRequest fails, Do fails, or the body
\* is an issue object without fields member, with a null one, with one that
\* is a string, or with a raw fields object.
Replies ==
    {Reply(<<"NewRequestError">>, NoError, JObj(NewMarshalMap)),
     Reply(NoError, <<"TransportError">>, JObj(NewMarshalMap)),
     Reply(NoError, NoError, JObj([id |-> JStr("10001")])),
     Reply(NoError, NoError, JObj([id |-> JStr("10001"), fields |-> JNull])),
     Reply(NoError, NoError, JObj([id |-> JStr("10001"), fields |-> JStr("x")]))}
    \cup {Reply(NoError, NoError, JObj([id |-> JStr("10001"), fields |-> JObj(F)]))
             : F \in RawFields}

\* The readers handed to PostAttachment: nil, or a stream of at most
\* MaxChunks chunks, none or one of whose Reads fails.
Readers ==
    {NoStream} \cup UNION {{Stream(n, k) : k \in 0..n} : n \in 0..MaxChunks}

\* The errors a call into the client returns: none or one.
ClientErrors == {NoError, <<"ClientError">>}

\* What Do gives PostAttachment: no response and an error, a response and
\* the error of its status, or a response.
PostResults ==
    {DoResult(FALSE, NoStream, <<"TransportError">>),
     DoResult(TRUE, NoStream, <<"StatusError">>),
     DoResult(TRUE, NoStream, NoError)}

\* What Do gives DownloadAttachment: no response and an error, a response
\* with an unread body and the error of its status, or a response with an
\* unread body.
DoResults ==
    {DoResult(FALSE, NoStream, <<"TransportError">>)}
    \cup {DoResult(TRUE, Stream(n, 0), e)
             : n \in 0..MaxChunks, e \in {NoError, <<"StatusError">>}}

\* The orders in which ranging over a Go map can visit its keys.
Orders(S) ==
    {o \in [1..Cardinality(S) -> S] : \A a, b \in 1..Cardinality(S) : o[a] = o[b] => a = b}

\* ----------------------------------------------------------------- state
VARIABLES
    fields,   \* the Fields Payload the caller holds
    data,     \* the document last handed to UnmarshalJSON
    out,      \* the document MarshalJSON last returned
    err,      \* the error the last call returned
    pc,       \* where the caller stands: start, have, failed, split, flat, resplit,
              \* fetched, posted, downloaded
    origin,   \* where the payload came from: new, literal, built, split, splitfailed
    flat,     \* the payload MarshalJSON last read
    recv,     \* the payload UnmarshalJSON was last called on, as it was before
    args,     \* the arguments of the last call of the builder
    issue,    \* the issue the builder last returned
    reply,    \* what the client gave the last call of GetCustomFields
    cf,       \* the custom fields GetCustomFields last returned
    stream,   \* the reader or response body of the last attachment call, as
              \* the call left it
    exit,     \* the return statement the last attachment call left by
    resp      \* whether the last attachment call returned a response

\* The variables of the issue operations.
ops == <<reply, cf, stream, exit, resp>>

vars == <<fields, data, out, err, pc, origin, flat, recv, args, issue,
          reply, cf, stream, exit, resp>>

NoArgs == [fieldsConfig |-> <<>>, order |-> <<>>]

Init ==
    /\ fields = NewIssueFields
    /\ data = Document(<<>>)
    /\ out = Document(<<>>)
    /\ err = NoError
    /\ pc = "start"
    /\ origin = "new"
    /\ flat = NewIssueFields
    /\ recv = NewIssueFields
    /\ args = NoArgs
    /\ issue = Nil
    /\ reply = Reply(NoError, NoError, JObj(NewMarshalMap))
    /\ cf = Nil
    /\ stream = NoStream
    /\ exit = ""
    /\ resp = FALSE

\* The caller fills an IssueFields value by hand.
Literal ==
    /\ pc = "start"
    /\ \E p \in LiteralPayloads :
          /\ p # NewIssueFields
          /\ fields' = p
    /\ pc' = "have"
    /\ origin' = "literal"
    /\ UNCHANGED <<data, out, err, flat, recv, args, issue, ops>>

\* The caller builds an issue from metadata and a field map.
Build ==
    /\ pc = "start"
    /\ \E fieldsConfig \in FieldsConfigs :
          \E order \in Orders(DOMAIN fieldsConfig) :
             LET r == InitIssueWithMetaAndFields(MetaProject, MetaIssueTypeFields,
                                                 fieldsConfig, order)
             IN  /\ args' = [fieldsConfig |-> fieldsConfig, order |-> order]
                 /\ issue' = r.issue
                 /\ err' = r.err
                 /\ fields' = IF r.issue = Nil THEN fields ELSE r.issue[3].Fields
                 /\ pc' = IF r.issue = Nil THEN "failed" ELSE "have"
                 /\ origin' = IF r.issue = Nil THEN origin ELSE "built"
    /\ UNCHANGED <<data, out, flat, recv, ops>>

\* Split: the caller decodes a wire document into the payload it holds, a
\* new one or one filled by hand (a built payload is flattened first).
Split ==
    /\ pc \in {"start", "have"}
    /\ origin \in {"new", "literal"}
    /\ \E doc \in WireDocs :
          LET r == UnmarshalJSON(fields, doc)
          IN  /\ fields' = r.fields
              /\ err' = r.err
              /\ data' = doc
              /\ recv' = fields
              /\ origin' = IF r.err = NoError THEN "split" ELSE "splitfailed"
    /\ pc' = "split"
    /\ UNCHANGED <<out, flat, args, issue, ops>>

\* Flatten: the caller encodes the payload it holds.
Flatten ==
    /\ pc \in {"start", "have", "split"}
    /\ out' = MarshalJSON(fields)
    /\ flat' = fields
    /\ err' = NoError
    /\ pc' = "flat"
    /\ UNCHANGED <<fields, data, origin, recv, args, issue, ops>>

\* The caller splits the document it has just flattened, into a new
\* payload or into the one it holds.
Resplit ==
    /\ pc = "flat"
    /\ \E receiver \in {NewIssueFields, fields} :
          LET r == UnmarshalJSON(receiver, out)
          IN  /\ fields' = r.fields
              /\ err' = r.err
              /\ recv' = receiver
    /\ data' = out
    /\ pc' = "resplit"
    /\ UNCHANGED <<out, origin, flat, args, issue, ops>>

\* The caller asks for the custom fields of an issue.
Fetch ==
    /\ pc = "start"
    /\ \E r \in Replies :
          /\ reply' = r
          /\ cf' = GetCustomFields(r).cf
          /\ err' = GetCustomFields(r).err
    /\ pc' = "fetched"
    /\ UNCHANGED <<fields, data, out, origin, flat, recv, args, issue, stream, exit, resp>>

\* The caller uploads an attachment from a reader.
Upload ==
    /\ pc = "start"
    /\ \E r \in Readers, newRequest \in ClientErrors, do \in PostResults :
          LET ret == PostAttachment(r, newRequest, do)
          IN  /\ stream' = ret.r
              /\ exit' = ret.exit
              /\ resp' = ret.resp
              /\ err' = ret.err
    /\ pc' = "posted"
    /\ UNCHANGED <<fields, data, out, origin, flat, recv, args, issue, reply, cf>>

\* The caller downloads an attachment.
Download ==
    /\ pc = "start"
    /\ \E newRequest \in ClientErrors, do \in DoResults :
          LET ret == DownloadAttachment(newRequest, do)
          IN  /\ stream' = ret.body
              /\ exit' = ret.exit
              /\ resp' = ret.resp
              /\ err' = ret.err
    /\ pc' = "downloaded"
    /\ UNCHANGED <<fields, data, out, origin, flat, recv, args, issue, reply, cf>>

Next ==
    \/ Literal \/ Build \/ Split \/ Flatten \/ Resplit
    \/ Fetch \/ Upload \/ Download

Spec == Init /\ [][Next]_vars

\* ---------------------------------------------------------------- claims
\* The dynamic store of a payload as a map (a nil store has no entries).
Store(i) == IF i["Unknowns"] = Nil THEN NewMarshalMap ELSE i["Unknowns"][2]

\* Whether two documents are the same JSON object, key order ignored.
SameObject(a, b) ==
    /\ DocKeys(a) = DocKeys(b)
    /\ \A k \in DocKeys(a) : DocValue(a, k) = DocValue(b, k)

\* The wire object of the end-to-end scenario.
ScenarioWire ==
    Document(<< <<"summary", JStr("Bug")>>, <<"customfield_10218", JStr("because")>> >>)

\* The external keys IssueFields declares: the first component of every
\* json tag.
KnownKeys == {IssueFieldsType[n].json[1] : n \in {q \in 1..NumField : IssueFieldsType[q].json # <<>>}}

\* C1: a wire object that splits successfully, flattened and split again,
\* splits successfully again and gives a dynamic store with the same keys
\* and values.
C1_RoundTrip ==
    (pc = "resplit" /\ origin = "split") =>
        (err = NoError /\ Store(fields) = Store(flat))

\* C2: after a successful Split no key of the dynamic store is the external
\* key of a field declared in IssueFields.
C2_Disjoint ==
    (pc \in {"split", "resplit"} /\ err = NoError) =>
        (DOMAIN Store(fields)) \cap KnownKeys = {}

\* A successful Split of a document with a known key and an unknown key.
C2_Witness ==
    /\ pc = "split" /\ err = NoError
    /\ "summary" \in DocKeys(data)
    /\ "customfield_100" \in DOMAIN Store(fields)

\* C3 as stated: Split of the scenario wire object gives Summary "Bug" and
\* the dynamic store {customfield_10218: "because"}, and every wire key of
\* the form customfield_<number> is a dynamic-store entry after Split.
C3_Original ==
    (pc = "split" /\ err = NoError) =>
        /\ data = ScenarioWire =>
              /\ fields["Summary"] = GoString("Bug")
              /\ Store(fields) = [customfield_10218 |-> GoString("because")]
        /\ \A k \in DocKeys(data) \cap {"customfield_100", "customfield_10218"} :
              k \in DOMAIN Store(fields)

\* C3 amended: Split of the scenario wire object gives Summary "Bug",
\* Justification "because" and an empty dynamic store, because IssueFields
\* declares customfield_10218 (and customfield_10220) as known fields; a
\* wire key customfield_<number> that IssueFields does not declare is a
\* dynamic-store entry after Split, with the decoded wire value.
C3_Amended ==
    (pc = "split" /\ err = NoError) =>
        /\ data = ScenarioWire =>
              /\ fields["Summary"] = GoString("Bug")
              /\ fields["Justification"] = GoString("because")
              /\ Store(fields) = NewMarshalMap
        /\ "customfield_10218" \notin DOMAIN Store(fields)
        /\ "customfield_100" \in DocKeys(data) =>
              /\ "customfield_100" \in DOMAIN Store(fields)
              /\ Store(fields)["customfield_100"] = Generic(DocValue(data, "customfield_100"))

\* The scenario wire object has been split.
C3_Witness == pc = "split" /\ err = NoError /\ data = ScenarioWire

\* C4 as stated: flattening the payload split from the scenario wire
\* object gives an object with the same keys and values as the wire object.
C4_Original ==
    (pc = "flat" /\ origin = "split" /\ recv = NewIssueFields /\ data = ScenarioWire) =>
        SameObject(out, data)

\* C4 amended: flattening the payload split from the scenario wire object
\* gives every key of the wire object with its value and one key more,
\* issuetype holding an empty object: the Type field is not tagged
\* omitempty.
C4_Amended ==
    (pc = "flat" /\ origin = "split" /\ recv = NewIssueFields /\ data = ScenarioWire) =>
        /\ DocKeys(out) = DocKeys(data) \cup {"issuetype"}
        /\ \A k \in DocKeys(data) : DocValue(out, k) = DocValue(data, k)
        /\ DocValue(out, "issuetype") = JObj(NewMarshalMap)

\* The payload split from the scenario wire object has been flattened.
C4_Witness ==
    pc = "flat" /\ origin = "split" /\ recv = NewIssueFields /\ data = ScenarioWire

\* C5 as stated: a known field at its zero value is not a key of the
\* output of Flatten unless the dynamic store holds that key.
C5_Original ==
    pc = "flat" =>
        \A n \in 1..NumField :
            LET fd == IssueFieldsType[n]
            IN  (/\ fd.structs # <<>>
                 /\ flat[fd.name] = ZeroValue(fd.kind, fd.type)
                 /\ fd.structs[1] \notin DOMAIN Store(flat))
                => fd.structs[1] \notin DocKeys(out)

\* C5 amended: a known field tagged omitempty at its zero value is not a
\* key of the output of Flatten unless the dynamic store holds that key;
\* the two fields not tagged omitempty, issuetype and summary, are keys of
\* every output of Flatten, at their zero value too.
C5_Amended ==
    pc = "flat" =>
        \A n \in 1..NumField :
            LET fd == IssueFieldsType[n]
            IN  fd.structs # <<>> =>
                   /\ (/\ flat[fd.name] = ZeroValue(fd.kind, fd.type)
                       /\ fd.structs[1] \notin {"issuetype", "summary"}
                       /\ fd.structs[1] \notin DOMAIN Store(flat))
                      => fd.structs[1] \notin DocKeys(out)
                   /\ fd.structs[1] \in {"issuetype", "summary"}
                      => fd.structs[1] \in DocKeys(out)

\* A payload with an omitempty field at zero and another one set has been
\* flattened.
C5_Witness ==
    /\ pc = "flat"
    /\ flat["Description"] = GoString("") /\ "description" \notin DocKeys(out)
    /\ flat["Justification"] # GoString("") /\ "customfield_10218" \in DocKeys(out)
    /\ flat["Type"] = ZeroValue("struct", "IssueType")

\* C6: Flatten does not fail, the keys of its output are the emitted known
\* keys and the keys of the dynamic store, every key of the dynamic store
\* carries the value of the dynamic store, and Unknowns is no key of it.
C6_MergeShape ==
    pc = "flat" =>
        /\ err = NoError
        /\ DocKeys(out) = ((DOMAIN StructsMap(flat)) \ {"Unknowns"}) \cup DOMAIN Store(flat)
        /\ \A k \in DOMAIN Store(flat) :
              k \in DocKeys(out) /\ DocValue(out, k) = Marshal(Store(flat)[k])
        /\ "Unknowns" \notin DocKeys(out)

\* The builder has returned.
Built == pc = "failed" \/ (pc = "have" /\ origin = "built")

\* The name table and the declared schema of the metadata, read off the
\* tree.
NameTable == GetAllFields(MetaIssueTypeFields)
Schema(k) == MetaIssueTypeFields[2][k][2].schema[2]
HasType(k) == "type" \in DOMAIN Schema(k)
HasItems(k) == "items" \in DOMAIN Schema(k)
SupportedTypes == {"array", "string", "date", "any", "project", "priority", "user", "issuetype"}

\* The ways an entry of the field map can fail, by its display name.
Absent(n) == n \notin DOMAIN NameTable
Unsupported(n) ==
    ~Absent(n) /\ HasType(NameTable[n]) /\ Schema(NameTable[n]).type[2] \notin SupportedTypes
LacksSchema(n) ==
    /\ ~Absent(n)
    /\ \/ ~HasType(NameTable[n])
       \/ Schema(NameTable[n]).type[2] = "array" /\ ~HasItems(NameTable[n])
Fails(n) == Absent(n) \/ Unsupported(n) \/ LacksSchema(n)

\* The display name of the first entry, in the order of the iteration, that
\* fails; "" when none does.
FirstFailing ==
    LET bad == {q \in 1..Len(args.order) : Fails(args.order[q])}
    IN  IF bad = {} THEN ""
        ELSE args.order[CHOOSE q \in bad : \A r \in bad : q <= r]

\* C7 as stated: a display name of the field map that the name table lacks
\* makes the builder return nil and an error naming that display name,
\* whatever the other entries and the order of the iteration.
C7_Original ==
    Built =>
        \A n \in DOMAIN args.fieldsConfig :
            Absent(n) => (issue = Nil /\ err = <<"KeyNotFound", n>>)

\* C7 amended: a display name of the field map that the name table lacks
\* makes the builder return nil and an error, and the entry is never
\* skipped; the error names that display name when it is the first failing
\* entry the iteration meets, and is the error of the failing entry met
\* before it otherwise.
C7_Amended ==
    Built =>
        \A n \in DOMAIN args.fieldsConfig :
            Absent(n) =>
                /\ issue = Nil
                /\ err # NoError
                /\ FirstFailing = n <=> err = <<"KeyNotFound", n>>

\* An unknown display name was met after an entry that was stored.
C7_Witness ==
    /\ pc = "failed"
    /\ Len(args.order) = 2
    /\ ~Fails(args.order[1])
    /\ Absent(args.order[2])
    /\ err = <<"KeyNotFound", args.order[2]>>

\* The value the dispatch table gives for the internal key k and the
\* supplied value.
Expected(k, value) ==
    LET t == Schema(k).type[2]
    IN  CASE t = "array" /\ Schema(k).items[2] = "component" ->
                GoSlice(<<GoStruct("Component", [id |-> "", name |-> value])>>)
          [] t = "array" /\ Schema(k).items[2] # "component" -> GoSlice(<<GoString(value)>>)
          [] t \in {"string", "date", "any"} -> GoString(value)
          [] t = "project" ->
                GoStruct("Project", [id |-> MetaProject.Id, name |-> MetaProject.Name])
          [] t = "priority" -> GoStruct("Priority", [id |-> "", name |-> value])
          [] t = "user" -> GoStruct("User", [name |-> value])
          [] t = "issuetype" -> GoStruct("IssueType", [id |-> "", name |-> value])

\* C8: when the builder succeeds the dynamic store of the returned issue
\* holds, under the internal key of every entry and under no other key, the
\* value the dispatch table gives for its schema type, and every known
\* field of the returned payload is at its zero value.
C8_Dispatch ==
    (pc = "have" /\ origin = "built") =>
        /\ issue = GoPtr("Issue", [Fields |-> fields])
        /\ DOMAIN Store(fields) = {NameTable[n] : n \in DOMAIN args.fieldsConfig}
        /\ \A n \in DOMAIN args.fieldsConfig :
              Store(fields)[NameTable[n]] = Expected(NameTable[n], args.fieldsConfig[n])
        /\ \A f \in FieldNames \ {"Unknowns"} : fields[f] = NewIssueFields[f]

\* An issue was built from a component and a project entry.
C8_Witness ==
    /\ pc = "have" /\ origin = "built"
    /\ DOMAIN args.fieldsConfig = {"Component/s", "Project"}
    /\ args.fieldsConfig["Component/s"] = "Backend"
    /\ Store(fields)["components"] =
          GoSlice(<<GoStruct("Component", [id |-> "", name |-> "Backend"])>>)

\* C9 as stated: a display name that resolves to a key of an unsupported
\* schema type makes the builder return nil and an error naming the type
\* and the field.
C9_Original ==
    Built =>
        \A n \in DOMAIN args.fieldsConfig :
            Unsupported(n) =>
                /\ issue = Nil
                /\ err = <<"UnknownIssueType", Schema(NameTable[n]).type[2], n>>

\* C9 amended: a display name that resolves to a key of an unsupported
\* schema type makes the builder return nil and an error; the error names
\* that type and that display name when the entry is the first failing
\* entry the iteration meets, and is the error of the failing entry met
\* before it otherwise.
C9_Amended ==
    Built =>
        \A n \in DOMAIN args.fieldsConfig :
            Unsupported(n) =>
                /\ issue = Nil
                /\ err # NoError
                /\ FirstFailing = n <=>
                      err = <<"UnknownIssueType", Schema(NameTable[n]).type[2], n>>

\* An entry of an unsupported schema type was met after an entry that was
\* stored.
C9_Witness ==
    /\ pc = "failed"
    /\ Len(args.order) = 2
    /\ ~Fails(args.order[1])
    /\ Unsupported(args.order[2])
    /\ err = <<"UnknownIssueType", "option", args.order[2]>>

\* C10 as stated: when every display name is in the name table and no
\* resolved key has an unsupported schema type the builder succeeds; a key
\* without schema type, or an array key without item type, is no cause of
\* failure.
C10_Original ==
    Built =>
        ((\A n \in DOMAIN args.fieldsConfig : ~Absent(n) /\ ~Unsupported(n))
            => (issue # Nil /\ err = NoError))

\* C10 amended: when every display name is in the name table and every
\* resolved key has a supported schema type and, for array, an item type,
\* the builder succeeds, without any check for required fields; a resolved
\* key without schema type, or an array key without item type, makes it
\* fail, with the error of the metadata lookup when that entry is the first
\* failing one.
C10_Amended ==
    Built =>
        /\ (\A n \in DOMAIN args.fieldsConfig : ~Fails(n)) => (issue # Nil /\ err = NoError)
        /\ \A n \in DOMAIN args.fieldsConfig :
              LacksSchema(n) =>
                  /\ issue = Nil
                  /\ err # NoError
                  /\ FirstFailing = n => err[1] = "tcontainer"

\* An issue was built from two entries of supported types, one of them an
\* array.
C10_Witness ==
    /\ pc = "have" /\ origin = "built"
    /\ DOMAIN args.fieldsConfig = {"Labels", "Due Date"}
    /\ issue # Nil

\* The keys of RawKeys that contain customfield, written out.
CustomKeys ==
    {<<"c", "u", "s", "t", "o", "m", "f", "i", "e", "l", "d", "_", "1", "0", "0">>,
     <<"m", "y", "_", "c", "u", "s", "t", "o", "m", "f", "i", "e", "l", "d">>}

\* The raw fields object of the example: customfield_100 holding an object
\* with the value member "High", summary holding "x".
ExampleFields ==
    [k \in {<<"c", "u", "s", "t", "o", "m", "f", "i", "e", "l", "d", "_", "1", "0", "0">>,
            <<"s", "u", "m", "m", "a", "r", "y">>} |->
        IF k = <<"s", "u", "m", "m", "a", "r", "y">> THEN JStr("x")
        ELSE JObj([value |-> JStr("High")])]

\* The string the result holds for the raw JSON value j: that of its value
\* member when j is an object that has one, that of j otherwise.
Stringified(j) ==
    IF j[1] = "jobj" /\ "value" \in DOMAIN j[2]
    THEN Sprint(Generic(j[2]["value"]))
    ELSE Sprint(Generic(j))

SplitDone == pc \in {"split", "resplit"}

\* C12: Split returns an error whenever the structured decode or the
\* generic decode of the wire object fails, and when it returns an error
\* the receiver is as it was before the call: no known field and no entry
\* of the dynamic store has been set.
C12_AllOrNothing ==
    SplitDone =>
        /\ (~data.valid \/ ~DecodeFields(recv, data.pairs, Len(data.pairs)).ok)
              => err # NoError
        /\ err # NoError => fields = recv

\* Whether a stream has been read to its end or closed.
Released(st) == st.eof \/ st.closed

\* C13: when PostAttachment returns, by whichever return statement, the
\* reader it was given has been read to its end or closed; when
\* DownloadAttachment returns, the body of the response has been read to
\* its end or closed, or the call succeeded and hands the response to the
\* caller.
C13_StreamsReleased ==
    /\ (pc = "posted" /\ stream.present) => Released(stream)
    /\ (pc = "downloaded" /\ stream.present) =>
          (Released(stream) \/ (exit = "success" /\ err = NoError /\ resp))

\* The known fields that no key of the document d is decoded into.
Untouched(d) ==
    {IssueFieldsType[n].name : n \in (1..NumField) \ {FieldFor(k) : k \in DocKeys(d)}}

\* C14: a successful Split gives the payload that a Split of the same wire
\* object gives on any other receiver, known fields and dynamic store
\* alike, and a known field that the wire object has no key for holds
\* nothing of what the receiver held before.
C14_PureFunction ==
    (SplitDone /\ err = NoError) =>
        /\ \A other \in LiteralPayloads :
              /\ UnmarshalJSON(other, data).err = NoError
              /\ UnmarshalJSON(other, data).fields = fields
        /\ \A f \in Untouched(data) \ {"Unknowns"} : fields[f] = NewIssueFields[f]
        /\ DOMAIN Store(fields) \subseteq DocKeys(data)

\* Whether the structured decode stores the member named k into a known
\* typed slot: a field of IssueFields other than the store.
SetsSlot(k) == FieldFor(k) # 0 /\ IssueFieldsType[FieldFor(k)].name # "Unknowns"

\* C15: after a successful Split every key of the wire object either was
\* decoded into a known typed slot or is a key of the dynamic store, and
\* not both.
C15_OnePlace ==
    (SplitDone /\ err = NoError) =>
        \A k \in DocKeys(data) : SetsSlot(k) # (k \in DOMAIN Store(fields))

=============================================================================
